---- MODULE Spec2Model ----
(***************************************************************************)
(* Model of the LLM observability proxy (main.py, database.py):            *)
(*   proxy_chat_completions   the proxy endpoint                           *)
(*   stream_llm_response      the streaming relay generator                *)
(*   calculate_performance_score, check_alert_rules                        *)
(*                                                                         *)
(* Time is an integer count of microseconds (the resolution of datetime).  *)
(* Text is a sequence of atoms, an atom standing for a character or an     *)
(* opaque run of non-whitespace characters; " " and "\n" are whitespace.   *)
(* A float that the code derives by division is kept as an exact fraction  *)
(* [n, d] with d > 0; a score is kept in hundredths (round(x, 2) * 100).   *)
(***************************************************************************)
EXTENDS Integers, Sequences, FiniteSets, TLC

\* ------------------------------------------------------------------ bounds
NumReq == 2
MaxTicks == 2
MaxChunks == 2
MaxNewRules == 1
MaxCommitFailures == 2

\* --------------------------------------------------------- program constants
WindowSize == 10
StatusUnavailable == 503
StatusInternal == 500
StatusBadRequest == 400
StatusOK == 200

Req == 1..NumReq

\* NULL of a nullable column or an unset Python value, per type
NullStr == "<null>"
NullInt == -1
NullFrac == [n |-> 0, d |-> 0]

\* elapsed times the clock can advance by, in microseconds
Durations == {500, 6000000}

\* ------------------------------------------------------------ text helpers
IsSpace(a) == a \in {" ", "\n"}

RECURSIVE Strip(_)
\* str.strip(): drop leading and trailing whitespace
Strip(t) ==
  IF t = <<>> THEN <<>>
  ELSE IF IsSpace(Head(t)) THEN Strip(Tail(t))
  ELSE IF IsSpace(t[Len(t)]) THEN Strip(SubSeq(t, 1, Len(t) - 1))
  ELSE t

RECURSIVE SplitCount(_)
\* len(str.split()): the number of maximal runs of non-whitespace atoms
SplitCount(t) ==
  IF t = <<>> THEN 0
  ELSE IF IsSpace(Head(t)) THEN SplitCount(Tail(t))
  ELSE IF Len(t) = 1 \/ IsSpace(t[2]) THEN 1 + SplitCount(Tail(t))
  ELSE SplitCount(Tail(t))

RECURSIVE Join(_)
\* "".join(list)
Join(chunks) ==
  IF chunks = <<>> THEN <<>> ELSE Head(chunks) \o Join(Tail(chunks))

RECURSIVE JoinSpace(_)
\* " ".join(list)
JoinSpace(parts) ==
  IF parts = <<>> THEN <<>>
  ELSE IF Len(parts) = 1 THEN Head(parts)
  ELSE Head(parts) \o <<" ">> \o JoinSpace(Tail(parts))

\* [f(x) for x in list if p(x)] for the user messages of a request
RECURSIVE UserContents(_)
UserContents(messages) ==
  IF messages = <<>> THEN <<>>
  ELSE IF Head(messages).role = "user"
       THEN <<Head(messages).content>> \o UserContents(Tail(messages))
       ELSE UserContents(Tail(messages))

\* input_text = " ".join(content of the user messages)
InputText(messages) == JoinSpace(UserContents(messages))

RECURSIVE PromptTokens(_)
\* prompt_tokens = sum(len(content.split()) for every message)
PromptTokens(messages) ==
  IF messages = <<>> THEN 0
  ELSE SplitCount(Head(messages).content) + PromptTokens(Tail(messages))

\* -------------------------------------------------------------- arithmetic
Max(a, b) == IF a >= b THEN a ELSE b
Min(a, b) == IF a <= b THEN a ELSE b

RECURSIVE GCD(_, _)
GCD(a, b) == IF b = 0 THEN a ELSE GCD(b, a % b)

\* a float obtained by a division, kept exact and in lowest terms
Frac(n, d) == LET g == GCD(n, d) IN [n |-> n \div g, d |-> d \div g]
Zero == Frac(0, 1)

\* round(n / d) to the nearest integer, ties to even (Python's round)
RoundHalfEven(n, d) ==
  LET q == n \div d
      r == n % d
  IN  IF 2 * r > d THEN q + 1
      ELSE IF 2 * r < d THEN q
      ELSE IF q % 2 = 0 THEN q ELSE q + 1

\* int(timedelta.total_seconds() * 1000): whole milliseconds, truncated
LatencyMs(startUs, endUs) == (endUs - startUs) \div 1000

\* tokens / duration_seconds if duration_seconds > 0 else 0
TokensPerSecond(tokens, startUs, endUs) ==
  IF endUs - startUs > 0
  THEN LET g == GCD(1000000, endUs - startUs)
       IN  Frac(tokens * (1000000 \div g), (endUs - startUs) \div g)
  ELSE Zero

\* --------------------------------------------------------- Metrics Calculator
\* 20 * max(0, 100 - latency_ms / 20)
LatencyScore20(latency_ms) == Max(0, 2000 - latency_ms)

\* ThroughputScoreD without the cap at 100
ThroughputScoreUncapped(tps) == tps.n * 5

\* d * min(100, tps * 5) for tps = n / d
ThroughputScoreD(tps) == Min(100 * tps.d, tps.n * 5)

\* calculate_performance_score with the two weights exchanged
calculate_performance_score_swapped(latency_ms, tokens_per_second, error_occurred) ==
  IF error_occurred THEN 0
  ELSE LET tps == IF tokens_per_second = NullFrac THEN Zero ELSE tokens_per_second
       IN  RoundHalfEven(2 * LatencyScore20(latency_ms) * tps.d
                           + 60 * ThroughputScoreD(tps),
                         tps.d)

\* calculate_performance_score, in hundredths:
\*   100 * round(latency_score * 0.6 + throughput_score * 0.4, 2)
\*   = round((60 * LatencyScore20 / 20 * d + 40 * ThroughputScoreD) / d)
calculate_performance_score(latency_ms, tokens_per_second, error_occurred) ==
  IF error_occurred THEN 0
  ELSE LET tps == IF tokens_per_second = NullFrac THEN Zero ELSE tokens_per_second
       IN  RoundHalfEven(3 * LatencyScore20(latency_ms) * tps.d
                           + 40 * ThroughputScoreD(tps),
                         tps.d)

\* ------------------------------------------------------------ Alert Evaluator
\* AlertRule rows the lifespan hook inserts into an empty table
DefaultRules ==
  << [id |-> 1, name |-> "High Latency Alert", metric |-> "latency",
      threshold |-> 5000, operator |-> "gt", is_active |-> TRUE],
     [id |-> 2, name |-> "Low Tokens/Sec Alert", metric |-> "tokens_per_second",
      threshold |-> 10, operator |-> "lt", is_active |-> TRUE],
     [id |-> 3, name |-> "High Error Rate Alert", metric |-> "error_rate",
      threshold |-> 10, operator |-> "gt", is_active |-> TRUE] >>

\* Python truthiness of a nullable string: None and "" are both falsy
Truthy(str) == str # NullStr /\ str # ""

\* the ids of the rows of a table (a row's id is its position)
Ids(table) == 1..Len(table)

\* query(LLMRequestLog).order_by(desc(start_time)).limit(10): the sets of row
\* ids the query may return; rows of equal start_time come in any order
RecentWindows(table) ==
  LET k == Min(WindowSize, Len(table))
  IN  { W \in SUBSET Ids(table) :
          /\ Cardinality(W) = k
          /\ \A i \in W : \A j \in Ids(table) \ W :
               table[j].start_time <= table[i].start_time }

\* error_rate over the rows of a window: (error_count / len(recent_logs)) * 100
ErrorRate(table, W) ==
  IF W # {}
  THEN Frac(100 * Cardinality({ i \in W : Truthy(table[i].error_message) }),
            Cardinality(W))
  ELSE Zero

\* MetricValue with an unset tokens_per_second left unresolved
MetricValueUnset(rule, entry, table, W) ==
  IF rule.metric = "latency" THEN Frac(entry.latency_ms, 1)
  ELSE IF rule.metric = "tokens_per_second" THEN entry.tokens_per_second
  ELSE IF rule.metric = "error_rate" THEN ErrorRate(table, W)
  ELSE NullFrac

\* the metric value a rule resolves for a log entry; NullFrac is None
MetricValue(rule, entry, table, W) ==
  IF rule.metric = "latency" THEN Frac(entry.latency_ms, 1)
  ELSE IF rule.metric = "tokens_per_second"
       THEN (IF entry.tokens_per_second = NullFrac THEN Zero
             ELSE entry.tokens_per_second)
  ELSE IF rule.metric = "error_rate" THEN ErrorRate(table, W)
  ELSE NullFrac

\* Triggered with gt read as greater or equal
TriggeredInclusive(operator, value, threshold) ==
  \/ operator = "gt" /\ value.n >= threshold * value.d
  \/ operator = "lt" /\ value.n < threshold * value.d
  \/ operator = "eq" /\ value.n = threshold * value.d

\* the comparison of a metric value n / d against a rule's threshold
Triggered(operator, value, threshold) ==
  \/ operator = "gt" /\ value.n > threshold * value.d
  \/ operator = "lt" /\ value.n < threshold * value.d
  \/ operator = "eq" /\ value.n = threshold * value.d

\* the AlertEvent check_alert_rules adds for a rule and a log entry
NewEvent(rule, entry, value) ==
  [rule_id |-> rule.id, rule_name |-> rule.name, metric_value |-> value,
   threshold |-> rule.threshold, log_id |-> entry.id]

RECURSIVE EventsFor(_, _, _, _)
\* the loop of check_alert_rules over the rule rows, in table order
EventsFor(ruleRows, entry, table, W) ==
  IF ruleRows = <<>> THEN <<>>
  ELSE LET rule == Head(ruleRows)
           value == MetricValue(rule, entry, table, W)
           rest == EventsFor(Tail(ruleRows), entry, table, W)
       IN  IF /\ rule.is_active
              /\ value # NullFrac
              /\ Triggered(rule.operator, value, rule.threshold)
           THEN <<NewEvent(rule, entry, value)>> \o rest
           ELSE rest

\* ------------------------------------------------------------------- inputs
Messages ==
  << [role |-> "system", content |-> <<"be", " ", "brief">>],
     [role |-> "user", content |-> <<"hi", " ", "there">>] >>

\* the sampling parameters of a chat-completion request; NullInt is absent
SamplingParams ==
  {"temperature", "max_tokens", "top_p", "frequency_penalty", "presence_penalty"}
NoParams == [p \in SamplingParams |-> NullInt]
\* a request with temperature 0.7 (in tenths) and max_tokens 64
Params == [NoParams EXCEPT !["temperature"] = 7, !["max_tokens"] = 64]

\* inbound request bodies: bytes that are no JSON text, bytes that are no
\* text at all, a JSON value that is no object, and chat-completion objects
Bodies ==
  { [kind |-> k, model |-> "m1", stream |-> FALSE, messages |-> <<>>,
     params |-> NoParams] : k \in {"badjson", "badutf8", "array"} }
  \cup { [kind |-> "object", model |-> "m1", stream |-> st, messages |-> Messages,
          params |-> Params] : st \in BOOLEAN }

\* backend URLs, as the pieces the shape test looks at
LMSTUDIO_URL == << "http://", "localhost:1234", "/v1/chat/completions" >>
OLLAMA_URL == << "http://", "localhost:11434", "/api/chat" >>
\* the values DEFAULT_LLM_URL can have: the default, the Ollama URL, and an
\* OpenAI-compatible server on a host named Ollama
BackendUrls ==
  { LMSTUDIO_URL, OLLAMA_URL,
    << "http://", "Ollama", ".lan:8000", "/v1/chat/completions" >> }

\* str.lower() on the pieces of a URL
Lower(piece) == IF piece = "Ollama" THEN "ollama" ELSE piece

\* "localhost:11434" in llm_url or "ollama" in llm_url.lower()
IsNativeChat(url) ==
  \/ \E i \in DOMAIN url : url[i] = "localhost:11434"
  \/ \E i \in DOMAIN url : Lower(url[i]) = "ollama"

\* ollama_request: model, messages and stream, nothing else
OllamaRequest(body) ==
  [model |-> body.model, messages |-> body.messages, stream |-> body.stream,
   params |-> NoParams]

\* request_body passed on as it came
PassThrough(body) ==
  [model |-> body.model, messages |-> body.messages, stream |-> body.stream,
   params |-> body.params]

\* the payload built for the backend, for the post or for the relay
OutboundPayload(url, body) ==
  IF IsNativeChat(url) THEN OllamaRequest(body) ELSE PassThrough(body)

\* the exceptions the model distinguishes: class, str(e), backend status
Exc(cls, msg, status) == [cls |-> cls, msg |-> msg, status |-> status]
NoExc == Exc("none", "", 0)
ConnectError == Exc("RequestError", "All connection attempts failed", 0)
ReadTimeout == Exc("RequestError", "", 0)
StatusError(code) == Exc("HTTPStatusError", "error response from backend", code)
ResponseNotJson == Exc("JSONDecodeError", "Expecting value", 0)
BodyNotJson == Exc("JSONDecodeError", "Expecting value", 0)
ClientClosed == Exc("RuntimeError", "Cannot send a request, as the client has been closed.", 0)
BodyNotText == Exc("UnicodeDecodeError", "invalid start byte", 0)
BodyNotObject == Exc("AttributeError", "'list' object has no attribute 'get'", 0)

DbError == Exc("OperationalError", "database is locked", 0)

BackendErrorStatuses == {404}

\* the ways a backend call can fail
BackendFailures ==
  {ConnectError, ReadTimeout} \cup { StatusError(c) : c \in BackendErrorStatuses }

\* a successful backend answer to a non-streaming call
OutText == <<"fine", " ", "thanks">>
BackendUsage == [prompt_tokens |-> 9, completion_tokens |-> 4, total_tokens |-> 13]
NoUsage == [prompt_tokens |-> NullInt, completion_tokens |-> NullInt, total_tokens |-> NullInt]
BackendAnswers ==
  { [content |-> OutText, usage |-> u] : u \in {BackendUsage, NoUsage} }

\* the chunks a backend stream can deliver
Chunks == { <<"a">>, <<"b", " ", "c">>, <<"\n">> }

\* the terminal diagnostic chunk: data: {"error": "<message>"}\n\n
ErrorChunk(msg) == << "data: ", "{\"error\": ", msg, "}", "\n", "\n" >>
IsErrorChunk(c) == Len(c) = 6 /\ c[1] = "data: " /\ c[2] = "{\"error\": "

\* -------------------------------------------------------------------- state
VARIABLES
  now,              \* the clock, microseconds
  ticks,            \* how often the clock has advanced
  pc,               \* per request: where its handler or relay stands
  rq,               \* per request: the inbound body
  start_time,       \* per request: start_time of the handler
  clientOpen,       \* per request: the httpx.AsyncClient is open
  exc,              \* per request: the exception being handled
  first_token_time, \* per relay: first_token_time (NullInt is None)
  response_chunks,  \* per relay: response_chunks
  tokens_count,     \* per relay: tokens_count
  log_entry,        \* per request: id of the row a pending alert pass evaluates
  logs,             \* table llm_request_logs
  rules,            \* table alert_rules
  events,           \* table alert_events
  resp,             \* per request: status surfaced to the caller (0: none yet)
  raised,           \* per request: status of the HTTPException raised first
  calls,            \* per request: backend call attempts
  passes,           \* per request: check_alert_rules runs
  delivered,        \* per request: chunks the backend stream delivered
  sent,             \* per request: chunks handed to the caller
  llm_url,          \* DEFAULT_LLM_URL, read from the environment at import
  payload,          \* per request: the JSON payload built for the backend
  commit_failures,  \* per request: commits of log rows that raised
  call,             \* a function applied on its own: its name and arguments
  result            \* what that function returned

vars == << now, ticks, pc, rq, start_time, clientOpen, exc, first_token_time,
           response_chunks, tokens_count, log_entry, logs, rules, events,
           resp, raised, calls, passes, delivered, sent, llm_url, payload,
           commit_failures, call, result >>

relayLocals == << first_token_time, response_chunks, tokens_count >>
stores == << logs, rules, events >>
clock == << now, ticks >>
applied == << call, result >>

NoCall == [fn |-> "none"]
NoResult == NullInt

NoBody ==
  [kind |-> "none", model |-> "", stream |-> FALSE, messages |-> <<>>,
   params |-> NoParams]

\* no payload has been built for the backend yet
NoPayload ==
  [model |-> NullStr, messages |-> <<>>, stream |-> FALSE, params |-> NoParams]

\* the service after start-up: no request yet, empty tables but for the rules
Started ==
  /\ now = 0
  /\ ticks = 0
  /\ pc = [r \in Req |-> "idle"]
  /\ rq = [r \in Req |-> NoBody]
  /\ start_time = [r \in Req |-> 0]
  /\ clientOpen = [r \in Req |-> FALSE]
  /\ exc = [r \in Req |-> NoExc]
  /\ first_token_time = [r \in Req |-> NullInt]
  /\ response_chunks = [r \in Req |-> <<>>]
  /\ tokens_count = [r \in Req |-> 0]
  /\ log_entry = [r \in Req |-> 0]
  /\ logs = <<>>
  /\ rules = DefaultRules
  /\ events = <<>>
  /\ resp = [r \in Req |-> 0]
  /\ raised = [r \in Req |-> 0]
  /\ calls = [r \in Req |-> 0]
  /\ passes = [r \in Req |-> 0]
  /\ delivered = [r \in Req |-> <<>>]
  /\ sent = [r \in Req |-> <<>>]
  /\ llm_url \in BackendUrls
  /\ payload = [r \in Req |-> NoPayload]
  /\ commit_failures = [r \in Req |-> 0]

Init ==
  /\ Started
  /\ call = NoCall
  /\ result = NoResult

\* ------------------------------------------------------------ record rows
\* LLMRequestLog(...) as added to the table; by is the request that added it
LogRow(r, model, endUs, input, output, error, streaming, ttft, tps, prompt, completion, total, score) ==
  [id |-> Len(logs) + 1, by |-> r, model_name |-> model,
   start_time |-> start_time[r], end_time |-> endUs,
   latency_ms |-> LatencyMs(start_time[r], endUs),
   prompt_tokens |-> prompt, completion_tokens |-> completion,
   total_tokens |-> total, input_text |-> input, output_text |-> output,
   error_message |-> error, is_streaming |-> streaming,
   time_to_first_token_ms |-> ttft, tokens_per_second |-> tps,
   performance_score |-> score]

\* FailureRow with the score computed as for a call without error
FailureRowScored(r, e) ==
  LogRow(r, rq[r].model, now, InputText(rq[r].messages), <<>>, e.msg, FALSE,
         NullInt, NullFrac, NullInt, NullInt, NullInt,
         calculate_performance_score(LatencyMs(start_time[r], now), Zero, FALSE))

\* the row of the except branch of the non-streaming call
FailureRow(r, e) ==
  LogRow(r, rq[r].model, now, InputText(rq[r].messages), <<>>, e.msg, FALSE,
         NullInt, NullFrac, NullInt, NullInt, NullInt,
         calculate_performance_score(LatencyMs(start_time[r], now), Zero, TRUE))

\* the row of the successful non-streaming call
SuccessRow(r, answer) ==
  LET hasUsage == answer.usage # NoUsage
      prompt == IF hasUsage THEN answer.usage.prompt_tokens
                ELSE PromptTokens(rq[r].messages)
      completion == IF hasUsage THEN answer.usage.completion_tokens ELSE NullInt
      total == IF hasUsage THEN answer.usage.total_tokens ELSE NullInt
      tps == TokensPerSecond(IF completion = NullInt THEN 0 ELSE completion,
                             start_time[r], now)
  IN  LogRow(r, rq[r].model, now, InputText(rq[r].messages), answer.content,
             NullStr, FALSE, NullInt, tps, prompt, completion, total,
             calculate_performance_score(LatencyMs(start_time[r], now), tps, FALSE))

\* the minimal row of the handler of unexpected errors
UnexpectedRow(r, e) ==
  LogRow(r, "unknown", now, <<>>, <<>>, "Unexpected error: " \o e.msg, FALSE,
         NullInt, NullFrac, NullInt, NullInt, NullInt, 0)

\* the row of the relay's except branch
StreamFailureRow(r, e) ==
  LogRow(r, rq[r].model, now, InputText(rq[r].messages), <<>>, e.msg, TRUE,
         NullInt, NullFrac, NullInt, NullInt, NullInt,
         calculate_performance_score(LatencyMs(start_time[r], now), Zero, TRUE))

\* StreamSuccessRow with the chunks joined by a space
StreamSuccessRowSpaced(r) ==
  LET ttft == IF first_token_time[r] # NullInt
              THEN LatencyMs(start_time[r], first_token_time[r]) ELSE NullInt
      tps == TokensPerSecond(tokens_count[r], start_time[r], now)
  IN  LogRow(r, rq[r].model, now, InputText(rq[r].messages),
             JoinSpace(response_chunks[r]), NullStr, TRUE, ttft, tps,
             NullInt, tokens_count[r],
             tokens_count[r] + PromptTokens(rq[r].messages),
             calculate_performance_score(LatencyMs(start_time[r], now), tps, FALSE))

\* StreamSuccessRow with the chunks counted in place of their tokens
StreamSuccessRowChunkCount(r) ==
  LET ttft == IF first_token_time[r] # NullInt
              THEN LatencyMs(start_time[r], first_token_time[r]) ELSE NullInt
      tps == TokensPerSecond(tokens_count[r], start_time[r], now)
  IN  LogRow(r, rq[r].model, now, InputText(rq[r].messages),
             Join(response_chunks[r]), NullStr, TRUE, ttft, tps,
             NullInt, Len(response_chunks[r]),
             tokens_count[r] + PromptTokens(rq[r].messages),
             calculate_performance_score(LatencyMs(start_time[r], now), tps, FALSE))

\* the row of the relay after a normal end of the stream
StreamSuccessRow(r) ==
  LET ttft == IF first_token_time[r] # NullInt
              THEN LatencyMs(start_time[r], first_token_time[r]) ELSE NullInt
      tps == TokensPerSecond(tokens_count[r], start_time[r], now)
  IN  LogRow(r, rq[r].model, now, InputText(rq[r].messages),
             Join(response_chunks[r]), NullStr, TRUE, ttft, tps,
             NullInt, tokens_count[r],
             tokens_count[r] + PromptTokens(rq[r].messages),
             calculate_performance_score(LatencyMs(start_time[r], now), tps, FALSE))

\* ------------------------------------------------------------------ actions
\* time passes while some request waits for the backend or for the caller
Waiting(r) ==
  pc[r] \in {"await_post", "relay_connect", "relay_read", "relay_err_yield"}

Tick(d) ==
  /\ ticks < MaxTicks
  /\ \E r \in Req : Waiting(r)
  /\ now' = now + d
  /\ ticks' = ticks + 1
  /\ UNCHANGED << applied, llm_url, payload, commit_failures, pc, rq, start_time, clientOpen, exc, relayLocals,
                  log_entry, stores, resp, raised, calls, passes, delivered,
                  sent >>

\* OuterHandler with the errors of reading a body that is no object
\* rejected like a body that is no JSON
OuterHandlerStrict(e) ==
  IF e.cls \in {"JSONDecodeError", "AttributeError"} THEN "reject" ELSE "unexpected"

\* except json.JSONDecodeError comes first, except Exception catches the rest
OuterHandler(e) ==
  IF e.cls = "JSONDecodeError" THEN "reject" ELSE "unexpected"

\* the handler of unexpected errors: a minimal row is added and committed,
\* or the commit raises and except Exception: pass drops the row; no alert
\* pass runs, HTTPException(500) reaches the caller. n counts the commits of
\* the request that have raised before the handler is entered.
HandleUnexpected(r, e, n) ==
  /\ \/ /\ logs' = Append(logs, UnexpectedRow(r, e))
        /\ commit_failures' = [commit_failures EXCEPT ![r] = n]
     \/ /\ n < MaxCommitFailures
        /\ logs' = logs
        /\ commit_failures' = [commit_failures EXCEPT ![r] = n + 1]
  /\ resp' = [resp EXCEPT ![r] = StatusInternal]
  /\ pc' = [pc EXCEPT ![r] = "done"]

\* an exception leaves the body of the outer try
Propagate(r, e, n) ==
  IF OuterHandler(e) = "reject"
  THEN /\ resp' = [resp EXCEPT ![r] = StatusBadRequest]
       /\ pc' = [pc EXCEPT ![r] = "done"]
       /\ commit_failures' = [commit_failures EXCEPT ![r] = n]
       /\ UNCHANGED logs
  ELSE HandleUnexpected(r, e, n)

\* request.json() or the reading of its fields raised
BodyRaises(r, e) ==
  /\ exc' = [exc EXCEPT ![r] = e]
  /\ Propagate(r, e, commit_failures[r])
  /\ UNCHANGED << applied, llm_url, payload, clock, clientOpen, relayLocals, log_entry, rules, events,
                  raised, calls, passes, delivered, sent >>

\* proxy_chat_completions up to its first wait on the backend: start_time is
\* taken and the body parsed; an object leads to the backend call
\* (non-streaming) or to the StreamingResponse, whose return leaves the
\* async with block and so closes the client before the relay runs.
\* Requests are numbered in the order of their arrival.
Receive(r, body) ==
  /\ pc[r] = "idle"
  /\ \A q \in Req : q < r => pc[q] # "idle"
  /\ rq' = [rq EXCEPT ![r] = body]
  /\ start_time' = [start_time EXCEPT ![r] = now]
  /\ CASE body.kind = "badjson" -> BodyRaises(r, BodyNotJson)
       [] body.kind = "badutf8" -> BodyRaises(r, BodyNotText)
       [] body.kind = "array" -> BodyRaises(r, BodyNotObject)
       [] body.kind = "object" /\ body.stream ->
            /\ payload' = [payload EXCEPT ![r] = OutboundPayload(llm_url, body)]
            /\ clientOpen' = [clientOpen EXCEPT ![r] = FALSE]
            /\ resp' = [resp EXCEPT ![r] = StatusOK]
            /\ pc' = [pc EXCEPT ![r] = "relay_start"]
            /\ UNCHANGED << applied, llm_url, commit_failures, clock, exc, relayLocals, log_entry, stores,
                            raised, calls, passes, delivered, sent >>
       [] body.kind = "object" /\ ~body.stream ->
            /\ payload' = [payload EXCEPT ![r] = OutboundPayload(llm_url, body)]
            /\ clientOpen' = [clientOpen EXCEPT ![r] = TRUE]
            /\ calls' = [calls EXCEPT ![r] = @ + 1]
            /\ pc' = [pc EXCEPT ![r] = "await_post"]
            /\ UNCHANGED << applied, llm_url, commit_failures, clock, exc, relayLocals, log_entry, stores,
                            resp, raised, passes, delivered, sent >>

\* client.post returned a success response with a JSON body: the row is
\* added and committed
PostSucceeds(r, answer) ==
  /\ pc[r] = "await_post"
  /\ logs' = Append(logs, SuccessRow(r, answer))
  /\ log_entry' = [log_entry EXCEPT ![r] = Len(logs) + 1]
  /\ pc' = [pc EXCEPT ![r] = "alert_ok"]
  /\ UNCHANGED << applied, llm_url, payload, commit_failures, clock, rq, start_time, clientOpen, exc, relayLocals, rules,
                  events, resp, raised, calls, passes, delivered, sent >>

\* the commits that have raised once the except branch is entered with e:
\* e is DbError when the call succeeded and the commit of its row raised
FailedCommits(r, e) == commit_failures[r] + (IF e = DbError THEN 1 ELSE 0)

\* PostFails with one retry of the call before the except branch gives up
PostFailsRetry(r, e) ==
  /\ pc[r] = "await_post"
  /\ FailedCommits(r, e) <= MaxCommitFailures
  /\ IF calls[r] < 2 /\ e # DbError
     THEN /\ calls' = [calls EXCEPT ![r] = @ + 1]
          /\ UNCHANGED << commit_failures, exc, logs, log_entry, pc >>
     ELSE /\ commit_failures' = [commit_failures EXCEPT ![r] = FailedCommits(r, e)]
          /\ exc' = [exc EXCEPT ![r] = e]
          /\ logs' = Append(logs, FailureRow(r, e))
          /\ log_entry' = [log_entry EXCEPT ![r] = Len(logs) + 1]
          /\ pc' = [pc EXCEPT ![r] = "alert_err"]
          /\ UNCHANGED calls
  /\ UNCHANGED << applied, llm_url, payload, clock, rq, start_time, clientOpen,
                  relayLocals, rules, events, resp, raised, passes, delivered,
                  sent >>

\* client.post, raise_for_status, response.json() or the commit of the
\* success row raised: the except branch adds and commits the erroring row
PostFails(r, e) ==
  /\ pc[r] = "await_post"
  /\ FailedCommits(r, e) <= MaxCommitFailures
  /\ commit_failures' = [commit_failures EXCEPT ![r] = FailedCommits(r, e)]
  /\ exc' = [exc EXCEPT ![r] = e]
  /\ logs' = Append(logs, FailureRow(r, e))
  /\ log_entry' = [log_entry EXCEPT ![r] = Len(logs) + 1]
  /\ pc' = [pc EXCEPT ![r] = "alert_err"]
  /\ UNCHANGED << applied, llm_url, payload, clock, rq, start_time, clientOpen, relayLocals, rules,
                  events, resp, raised, calls, passes, delivered, sent >>

\* the except branch is entered with e and the commit of its erroring row
\* raises: the exception leaves the branch for the outer handlers
PostFailsUnsaved(r, e) ==
  /\ pc[r] = "await_post"
  /\ FailedCommits(r, e) < MaxCommitFailures
  /\ exc' = [exc EXCEPT ![r] = e]
  /\ clientOpen' = [clientOpen EXCEPT ![r] = FALSE]
  /\ Propagate(r, DbError, FailedCommits(r, e) + 1)
  /\ UNCHANGED << applied, llm_url, payload, clock, rq, start_time, relayLocals,
                  log_entry, rules, events, raised, calls, passes, delivered,
                  sent >>

\* check_alert_rules(db, log_entry) and the commit of its events
AlertPass(r) ==
  /\ \E W \in RecentWindows(logs) :
       events' = events \o EventsFor(rules, logs[log_entry[r]], logs, W)
  /\ passes' = [passes EXCEPT ![r] = @ + 1]

\* the alert pass of the successful call, then return response_data
AlertAfterSuccess(r) ==
  /\ pc[r] = "alert_ok"
  /\ AlertPass(r)
  /\ resp' = [resp EXCEPT ![r] = StatusOK]
  /\ clientOpen' = [clientOpen EXCEPT ![r] = FALSE]
  /\ pc' = [pc EXCEPT ![r] = "done"]
  /\ UNCHANGED << applied, llm_url, payload, commit_failures, clock, rq, start_time, exc, relayLocals, log_entry, logs,
                  rules, raised, calls, delivered, sent >>

\* the status of the HTTPException the except branch raises for e
InnerStatus(e) ==
  IF e.cls = "RequestError" THEN StatusUnavailable
  ELSE IF e.cls = "HTTPStatusError" THEN e.status
  ELSE StatusInternal

\* the HTTPException the except branch raises for e
InnerRaise(e) ==
  Exc("HTTPException",
      (IF e.cls = "RequestError" THEN "Connection error to local LLM: "
       ELSE IF e.cls = "HTTPStatusError" THEN "LLM API error: "
       ELSE "Unexpected error: ") \o e.msg,
      InnerStatus(e))

\* the alert pass of the failed call, then raise HTTPException(...): the
\* raise happens inside the outer try, whose except Exception handles it
AlertAfterFailure(r) ==
  /\ pc[r] = "alert_err"
  /\ AlertPass(r)
  /\ raised' = [raised EXCEPT ![r] = InnerStatus(exc[r])]
  /\ clientOpen' = [clientOpen EXCEPT ![r] = FALSE]
  /\ Propagate(r, InnerRaise(exc[r]), commit_failures[r])
  /\ UNCHANGED << applied, llm_url, payload, clock, rq, start_time, exc, relayLocals, log_entry, rules,
                  calls, delivered, sent >>

\* POST /api/alerts/rules: a rule row is added
NewRules ==
  { [id |-> 0, name |-> "Zero Latency", metric |-> "latency", threshold |-> 0,
     operator |-> "eq", is_active |-> TRUE],
    [id |-> 0, name |-> "Any Latency", metric |-> "latency", threshold |-> 0,
     operator |-> "gt", is_active |-> TRUE],
    [id |-> 0, name |-> "No Throughput", metric |-> "tokens_per_second",
     threshold |-> 0, operator |-> "lt", is_active |-> TRUE],
    [id |-> 0, name |-> "Muted", metric |-> "tokens_per_second",
     threshold |-> 10, operator |-> "lt", is_active |-> FALSE] }

create_alert_rule(rule) ==
  /\ Len(rules) < Len(DefaultRules) + MaxNewRules
  /\ rules' = Append(rules, [rule EXCEPT !.id = Len(rules) + 1])
  /\ UNCHANGED << applied, llm_url, payload, commit_failures, clock, pc, rq, start_time, clientOpen, exc, relayLocals,
                  log_entry, logs, events, resp, raised, calls, passes,
                  delivered, sent >>

\* ----------------------------------------------------- Stream Capture Relay
\* RelayExcept without the yield of the diagnostic chunk
RelayExceptSilent(r, e) ==
  /\ exc' = [exc EXCEPT ![r] = e]
  /\ sent' = sent
  /\ pc' = [pc EXCEPT ![r] = "relay_err_yield"]

\* except Exception as e: the diagnostic chunk is yielded; the generator is
\* suspended at that yield until the caller takes the chunk
RelayExcept(r, e) ==
  /\ exc' = [exc EXCEPT ![r] = e]
  /\ sent' = [sent EXCEPT ![r] = Append(@, ErrorChunk(e.msg))]
  /\ pc' = [pc EXCEPT ![r] = "relay_err_yield"]

\* the server starts to iterate the generator: client.stream(...) is entered;
\* a closed client raises at once, an open one sends the request
RelayStart(r) ==
  /\ pc[r] = "relay_start"
  /\ IF clientOpen[r]
     THEN /\ calls' = [calls EXCEPT ![r] = @ + 1]
          /\ pc' = [pc EXCEPT ![r] = "relay_connect"]
          /\ UNCHANGED << exc, sent >>
     ELSE /\ RelayExcept(r, ClientClosed)
          /\ UNCHANGED calls
  /\ UNCHANGED << applied, llm_url, payload, commit_failures, clock, rq, start_time, clientOpen, relayLocals, log_entry,
                  stores, resp, raised, passes, delivered >>

\* the backend cannot be reached, times out, or answers with an error status
\* (raise_for_status), before any chunk
RelayConnectFails(r, e) ==
  /\ pc[r] = "relay_connect"
  /\ RelayExcept(r, e)
  /\ UNCHANGED << applied, llm_url, payload, commit_failures, clock, rq, start_time, clientOpen, relayLocals, log_entry,
                  stores, resp, raised, calls, passes, delivered >>

\* the backend answered with a success status: the chunk loop begins
RelayConnected(r) ==
  /\ pc[r] = "relay_connect"
  /\ pc' = [pc EXCEPT ![r] = "relay_read"]
  /\ UNCHANGED << applied, llm_url, payload, commit_failures, clock, rq, start_time, clientOpen, exc, relayLocals,
                  log_entry, stores, resp, raised, calls, passes, delivered,
                  sent >>

\* RelayChunk with first_token_time taken anew at every chunk
RelayChunkLastToken(r, chunk) ==
  /\ pc[r] = "relay_read"
  /\ Len(delivered[r]) < MaxChunks
  /\ delivered' = [delivered EXCEPT ![r] = Append(@, chunk)]
  /\ IF Strip(chunk) # <<>>
     THEN /\ first_token_time' =
               [first_token_time EXCEPT ![r] = now]
          /\ response_chunks' = [response_chunks EXCEPT ![r] = Append(@, chunk)]
          /\ tokens_count' = [tokens_count EXCEPT ![r] = @ + SplitCount(chunk)]
          /\ sent' = [sent EXCEPT ![r] = Append(@, chunk)]
     ELSE UNCHANGED << relayLocals, sent >>
  /\ UNCHANGED << applied, llm_url, payload, commit_failures, clock, pc, rq, start_time, clientOpen, exc, log_entry,
                  stores, resp, raised, calls, passes >>

\* one turn of async for chunk in response.aiter_text()
RelayChunk(r, chunk) ==
  /\ pc[r] = "relay_read"
  /\ Len(delivered[r]) < MaxChunks
  /\ delivered' = [delivered EXCEPT ![r] = Append(@, chunk)]
  /\ IF Strip(chunk) # <<>>
     THEN /\ first_token_time' =
               [first_token_time EXCEPT ![r] = IF @ = NullInt THEN now ELSE @]
          /\ response_chunks' = [response_chunks EXCEPT ![r] = Append(@, chunk)]
          /\ tokens_count' = [tokens_count EXCEPT ![r] = @ + SplitCount(chunk)]
          /\ sent' = [sent EXCEPT ![r] = Append(@, chunk)]
     ELSE UNCHANGED << relayLocals, sent >>
  /\ UNCHANGED << applied, llm_url, payload, commit_failures, clock, pc, rq, start_time, clientOpen, exc, log_entry,
                  stores, resp, raised, calls, passes >>

\* the backend stream breaks while the loop waits for the next chunk
RelayStreamFails(r, e) ==
  /\ pc[r] = "relay_read"
  /\ RelayExcept(r, e)
  /\ UNCHANGED << applied, llm_url, payload, commit_failures, clock, rq, start_time, clientOpen, relayLocals, log_entry,
                  stores, resp, raised, calls, passes, delivered >>

\* the caller took the diagnostic chunk: the erroring row is added and committed
RelayPersistError(r) ==
  /\ pc[r] = "relay_err_yield"
  /\ logs' = Append(logs, StreamFailureRow(r, exc[r]))
  /\ log_entry' = [log_entry EXCEPT ![r] = Len(logs) + 1]
  /\ pc' = [pc EXCEPT ![r] = "relay_err_alert"]
  /\ UNCHANGED << applied, llm_url, payload, commit_failures, clock, rq, start_time, clientOpen, exc, relayLocals, rules,
                  events, resp, raised, calls, passes, delivered, sent >>

\* the commit of the relay's row raises, in the except branch or after the
\* end of the stream: nothing in the generator handles it
RelayCommitFails(r) ==
  /\ pc[r] \in {"relay_err_yield", "relay_read"}
  /\ commit_failures[r] < MaxCommitFailures
  /\ commit_failures' = [commit_failures EXCEPT ![r] = @ + 1]
  /\ pc' = [pc EXCEPT ![r] = "crashed"]
  /\ UNCHANGED << applied, llm_url, payload, clock, rq, start_time, clientOpen,
                  exc, relayLocals, log_entry, stores, resp, raised, calls,
                  passes, delivered, sent >>

\* the alert pass of the relay's except branch, then return
RelayAlertAfterError(r) ==
  /\ pc[r] = "relay_err_alert"
  /\ AlertPass(r)
  /\ pc' = [pc EXCEPT ![r] = "done"]
  /\ UNCHANGED << applied, llm_url, payload, commit_failures, clock, rq, start_time, clientOpen, exc, relayLocals,
                  log_entry, logs, rules, resp, raised, calls, delivered, sent >>

\* RelayEnd that adds the row once while the chunk loop still runs
RelayEndEarly(r) ==
  /\ pc[r] = "relay_read"
  /\ logs' = Append(logs, StreamSuccessRow(r))
  /\ log_entry' = [log_entry EXCEPT ![r] = Len(logs) + 1]
  /\ pc' = [pc EXCEPT ![r] = IF log_entry[r] = 0 THEN "relay_read"
                              ELSE "relay_end_alert"]
  /\ UNCHANGED << applied, llm_url, payload, commit_failures, clock, rq, start_time,
                  clientOpen, exc, relayLocals, rules, events, resp, raised,
                  calls, passes, delivered, sent >>

\* the backend stream ends normally: the row is built, added and committed
RelayEnd(r) ==
  /\ pc[r] = "relay_read"
  /\ logs' = Append(logs, StreamSuccessRow(r))
  /\ log_entry' = [log_entry EXCEPT ![r] = Len(logs) + 1]
  /\ pc' = [pc EXCEPT ![r] = "relay_end_alert"]
  /\ UNCHANGED << applied, llm_url, payload, commit_failures, clock, rq, start_time, clientOpen, exc, relayLocals, rules,
                  events, resp, raised, calls, passes, delivered, sent >>

\* the alert pass after the normal end of the stream
RelayAlertAfterEnd(r) ==
  /\ pc[r] = "relay_end_alert"
  /\ AlertPass(r)
  /\ pc' = [pc EXCEPT ![r] = "done"]
  /\ UNCHANGED << applied, llm_url, payload, commit_failures, clock, rq, start_time, clientOpen, exc, relayLocals,
                  log_entry, logs, rules, resp, raised, calls, delivered, sent >>

\* Disconnect with the partial state flushed into a row on the way out
DisconnectFlushed(r) ==
  /\ pc[r] \in {"relay_start", "relay_connect", "relay_read", "relay_err_yield"}
  /\ logs' = Append(logs, StreamSuccessRow(r))
  /\ pc' = [pc EXCEPT ![r] = "cancelled"]
  /\ UNCHANGED << applied, llm_url, payload, commit_failures, clock, rq, start_time,
                  clientOpen, exc, relayLocals, log_entry, rules, events, resp,
                  raised, calls, passes, delivered, sent >>

\* the caller goes away: the generator is closed or cancelled where it is
\* suspended (GeneratorExit and CancelledError are no Exception)
Disconnect(r) ==
  /\ pc[r] \in {"relay_start", "relay_connect", "relay_read", "relay_err_yield"}
  /\ pc' = [pc EXCEPT ![r] = "cancelled"]
  /\ UNCHANGED << applied, llm_url, payload, commit_failures, clock, rq, start_time, clientOpen, exc, relayLocals,
                  log_entry, stores, resp, raised, calls, passes, delivered,
                  sent >>

\* what the except branch of the non-streaming call can be entered with
PostFailures == BackendFailures \cup {ResponseNotJson, DbError}

Next ==
  \/ \E d \in Durations : Tick(d)
  \/ \E r \in Req : \E body \in Bodies : Receive(r, body)
  \/ \E r \in Req : \E answer \in BackendAnswers : PostSucceeds(r, answer)
  \/ \E r \in Req : \E e \in PostFailures : PostFails(r, e)
  \/ \E r \in Req : \E e \in PostFailures : PostFailsUnsaved(r, e)
  \/ \E r \in Req : AlertAfterSuccess(r)
  \/ \E r \in Req : AlertAfterFailure(r)
  \/ \E rule \in NewRules : create_alert_rule(rule)
  \/ \E r \in Req : RelayStart(r)
  \/ \E r \in Req : RelayPersistError(r)
  \/ \E r \in Req : RelayCommitFails(r)
  \/ \E r \in Req : RelayAlertAfterError(r)
  \/ \E r \in Req : Disconnect(r)

Spec == Init /\ [][Next]_vars

\* --------------------------------------------- the relay with an open client
\* stream_llm_response called with an open client: the relay on its own, as
\* its parameters allow, one invocation after the other
StreamBody ==
  [kind |-> "object", model |-> "m1", stream |-> TRUE, messages |-> Messages,
   params |-> Params]

RelayInvoke(r) ==
  /\ pc[r] = "idle"
  /\ \A q \in Req : q < r => pc[q] \in {"done", "cancelled", "crashed"}
  /\ rq' = [rq EXCEPT ![r] = StreamBody]
  /\ start_time' = [start_time EXCEPT ![r] = now]
  /\ clientOpen' = [clientOpen EXCEPT ![r] = TRUE]
  /\ payload' = [payload EXCEPT ![r] = OutboundPayload(llm_url, StreamBody)]
  /\ pc' = [pc EXCEPT ![r] = "relay_start"]
  /\ UNCHANGED << applied, llm_url, commit_failures, clock, exc, relayLocals, log_entry, stores, resp, raised,
                  calls, passes, delivered, sent >>

StreamFailures == {ReadTimeout, Exc("RequestError", "peer closed connection", 0)}

NextRelay ==
  \/ \E d \in Durations : Tick(d)
  \/ \E r \in Req : RelayInvoke(r)
  \/ \E r \in Req : RelayStart(r)
  \/ \E r \in Req : \E e \in BackendFailures : RelayConnectFails(r, e)
  \/ \E r \in Req : RelayConnected(r)
  \/ \E r \in Req : \E chunk \in Chunks : RelayChunk(r, chunk)
  \/ \E r \in Req : \E e \in StreamFailures : RelayStreamFails(r, e)
  \/ \E r \in Req : RelayEnd(r)
  \/ \E r \in Req : RelayAlertAfterEnd(r)
  \/ \E r \in Req : RelayPersistError(r)
  \/ \E r \in Req : RelayCommitFails(r)
  \/ \E r \in Req : RelayAlertAfterError(r)
  \/ \E r \in Req : Disconnect(r)

SpecRelay == Init /\ [][NextRelay]_vars

\* ------------------------------------ every path, one request after the other
\* the handler entered once the requests before it have been dealt with
ReceiveAlone(r, body) ==
  /\ \A q \in Req : q < r => pc[q] \in {"done", "cancelled", "crashed"}
  /\ Receive(r, body)

NextSerial ==
  \/ \E d \in Durations : Tick(d)
  \/ \E r \in Req : \E body \in Bodies : ReceiveAlone(r, body)
  \/ \E r \in Req : \E answer \in BackendAnswers : PostSucceeds(r, answer)
  \/ \E r \in Req : \E e \in PostFailures : PostFails(r, e)
  \/ \E r \in Req : \E e \in PostFailures : PostFailsUnsaved(r, e)
  \/ \E r \in Req : AlertAfterSuccess(r)
  \/ \E r \in Req : AlertAfterFailure(r)
  \/ NextRelay

SpecSerial == Init /\ [][NextSerial]_vars

\* ------------------------------------------- the score function on its own
LatencySamples == {0, 1, 20, 999, 1000, 1999, 2000, 2001, 6000}
ThroughputSamples ==
  { Frac(n, d) : n \in {0, 1, 10, 20, 21, 100}, d \in {1, 3, 7} }

ScoreCalls ==
  { [fn |-> "calculate_performance_score", latency_ms |-> l,
     tokens_per_second |-> t, error_occurred |-> e] :
      l \in LatencySamples, t \in ThroughputSamples, e \in BOOLEAN }

InitScore ==
  /\ Started
  /\ call \in ScoreCalls
  /\ result = NoResult

ApplyScore ==
  /\ call.fn = "calculate_performance_score"
  /\ result = NoResult
  /\ result' = calculate_performance_score(call.latency_ms,
                                           call.tokens_per_second,
                                           call.error_occurred)
  /\ UNCHANGED << llm_url, payload, commit_failures, clock, pc, rq, start_time,
                  clientOpen, exc, relayLocals, log_entry, stores, resp, raised,
                  calls, passes, delivered, sent, call >>

NextScore == ApplyScore

SpecScore == InitScore /\ [][NextScore]_vars

\* ------------------------------------------- the aggregations on their own
MaxCount == 21
MaxWindow == 3

RECURSIVE Insert(_, _)
Insert(x, s) ==
  IF s = <<>> THEN <<x>>
  ELSE IF x <= Head(s) THEN <<x>> \o s
  ELSE <<Head(s)>> \o Insert(x, Tail(s))

RECURSIVE Sorted(_)
\* sorted(values), ascending
Sorted(s) == IF s = <<>> THEN <<>> ELSE Insert(Head(s), Sorted(Tail(s)))

RECURSIVE Sum(_)
Sum(s) == IF s = <<>> THEN 0 ELSE Head(s) + Sum(Tail(s))

\* a quotient whose evaluation raises (ZeroDivisionError, StatisticsError)
DivFault == [n |-> 1, d |-> 0]

\* a / b of two counts
Ratio(a, b) == IF b = 0 THEN DivFault ELSE Frac(a, b)

\* statistics.mean over integers; it raises on an empty list
Mean(s) == Ratio(Sum(s), Len(s))

\* statistics.mean(values) if values else 0
MeanOrZero(s) == IF s # <<>> THEN Mean(s) ELSE Zero

\* statistics.median(values) if values else 0
MedianOrZero(s) ==
  IF s # <<>>
  THEN LET n == Len(s)
           t == Sorted(s)
       IN  IF n % 2 = 1 THEN Frac(t[n \div 2 + 1], 1)
           ELSE Frac(t[n \div 2] + t[n \div 2 + 1], 2)
  ELSE Zero

\* the order of two floats
FracLeq(a, b) == a.n * b.d <= b.n * a.d
FracAdd(a, b) == Frac(a.n * b.d + b.n * a.d, a.d * b.d)

RECURSIVE FracSum(_)
FracSum(s) == IF s = <<>> THEN Zero ELSE FracAdd(Head(s), FracSum(Tail(s)))

\* statistics.mean(tokens_per_sec) if tokens_per_sec else 0
FracMeanOrZero(s) ==
  IF s # <<>>
  THEN LET t == FracSum(s) IN Frac(t.n, t.d * Len(s))
  ELSE Zero

\* max(tokens_per_sec) if tokens_per_sec else 0
FracMaxOrZero(s) ==
  IF s # <<>>
  THEN CHOOSE v \in { s[i] : i \in DOMAIN s } :
         \A i \in DOMAIN s : FracLeq(s[i], v)
  ELSE Zero

\* min(tokens_per_sec) if tokens_per_sec else 0
FracMinOrZero(s) ==
  IF s # <<>>
  THEN CHOOSE v \in { s[i] : i \in DOMAIN s } :
         \A i \in DOMAIN s : FracLeq(v, s[i])
  ELSE Zero

\* PercentileIndex with the product rounded up
PercentileIndexCeil(count, pct) == (count * pct + 99) \div 100

\* int(len(latencies) * 0.95), int(len(latencies) * 0.99): pct is in percent
PercentileIndex(count, pct) == (count * pct) \div 100

\* sorted(latencies)[int(len(latencies) * p)] if latencies else 0; an index
\* past the end is an IndexError
Percentile(latencies, pct) ==
  IF latencies # <<>>
  THEN LET k == PercentileIndex(Len(latencies), pct)
       IN  IF k < Len(latencies)
           THEN [kind |-> "percentile", index |-> k,
                 value |-> Sorted(latencies)[k + 1], fault |-> FALSE]
           ELSE [kind |-> "percentile", index |-> k, value |-> NullInt,
                 fault |-> TRUE]
  ELSE [kind |-> "percentile", index |-> NullInt, value |-> 0, fault |-> FALSE]

\* [f(row) for row in rows if keep(row)] for the columns the analytics read
LatenciesOf(rows) ==
  LET kept == SelectSeq(rows, LAMBDA row : row.latency_ms # NullInt)
  IN  [i \in DOMAIN kept |-> kept[i].latency_ms]
ThroughputsOf(rows) ==
  LET kept == SelectSeq(rows, LAMBDA row : row.tokens_per_second # NullFrac)
  IN  [i \in DOMAIN kept |-> kept[i].tokens_per_second]
ScoresOf(rows) ==
  LET kept == SelectSeq(rows, LAMBDA row : row.performance_score # NullInt)
  IN  [i \in DOMAIN kept |-> kept[i].performance_score]

\* the result when the window is empty
NoData == [kind |-> "no_data", message |-> "No data available for the last 24 hours"]

\* except Exception as e: raise HTTPException(500, ...)
AnalyticsFailed == [kind |-> "fault", status |-> StatusInternal]

\* the entry of model_performance for one model
ModelPerformance(model_logs) ==
  [request_count |-> Len(model_logs),
   avg_latency |-> MeanOrZero(LatenciesOf(model_logs)),
   avg_performance_score |-> MeanOrZero(ScoresOf(model_logs)),
   error_rate |->
     LET q == Ratio(Len(SelectSeq(model_logs, LAMBDA row : Truthy(row.error_message))),
                    Len(model_logs))
     IN  IF q = DivFault THEN q ELSE Frac(100 * q.n, q.d)]

\* the analytics dictionary built from the rows of the window, or the
\* failure when building it raises
Aggregate(recent_logs) ==
  LET latencies == LatenciesOf(recent_logs)
      tokens_per_sec == ThroughputsOf(recent_logs)
      performance_scores == ScoresOf(recent_logs)
      share == Ratio(Len(SelectSeq(recent_logs, LAMBDA row : ~Truthy(row.error_message))),
                     Len(recent_logs))
      p95 == Percentile(latencies, 95)
      p99 == Percentile(latencies, 99)
      models == { recent_logs[i].model_name : i \in DOMAIN recent_logs }
      model_performance ==
        [model \in models |->
           ModelPerformance(SelectSeq(recent_logs,
                                      LAMBDA row : row.model_name = model))]
  IN  IF \/ share = DivFault
         \/ p95.fault
         \/ p99.fault
         \/ \E model \in models : model_performance[model].error_rate = DivFault
      THEN AnalyticsFailed
      ELSE [kind |-> "analytics",
            summary |->
              [total_requests |-> Len(recent_logs),
               success_rate |-> Frac(100 * share.n, share.d),
               streaming_requests |->
                 Len(SelectSeq(recent_logs, LAMBDA row : row.is_streaming)),
               avg_performance_score |-> MeanOrZero(performance_scores)],
            latency_stats |->
              [mean |-> MeanOrZero(latencies),
               median |-> MedianOrZero(latencies),
               p95 |-> p95.value,
               p99 |-> p99.value],
            throughput_stats |->
              [mean_tokens_per_sec |-> FracMeanOrZero(tokens_per_sec),
               max_tokens_per_sec |-> FracMaxOrZero(tokens_per_sec),
               min_tokens_per_sec |-> FracMinOrZero(tokens_per_sec)],
            model_performance |-> model_performance]

\* get_performance_analytics without its test for an empty window
get_performance_analytics_unguarded(recent_logs) == Aggregate(recent_logs)

\* GET /api/analytics/performance over the rows of the last 24 hours
get_performance_analytics(recent_logs) ==
  IF recent_logs = <<>> THEN NoData ELSE Aggregate(recent_logs)

\* latency lists of a given length: ascending, descending, constant, mixed
Shapes == {"ascending", "descending", "constant", "mixed"}
LatencyList(n, shape) ==
  [i \in 1..n |->
     CASE shape = "ascending" -> 10 * i
       [] shape = "descending" -> 10 * (n - i + 1)
       [] shape = "constant" -> 500
       [] shape = "mixed" -> ((i * 7) % 5) * 100 + i]

\* rows as the four persisting paths leave them: a non-streaming success,
\* a streaming success, a failed call, a timed-out call
StoredRow(model, latency, tps, error, streaming) ==
  [model_name |-> model, latency_ms |-> latency, tokens_per_second |-> tps,
   error_message |-> error, is_streaming |-> streaming,
   performance_score |->
     calculate_performance_score(latency, IF tps = NullFrac THEN Zero ELSE tps,
                                 error # NullStr)]
SampleRows ==
  { StoredRow("m1", 120, Frac(25, 2), NullStr, FALSE),
    StoredRow("m2", 7000, Frac(3, 1), NullStr, TRUE),
    StoredRow("m1", 0, NullFrac, "All connection attempts failed", FALSE),
    StoredRow("m2", 60000, NullFrac, "", TRUE) }

Windows == UNION { [1..n -> SampleRows] : n \in 0..MaxWindow }

StatsCalls ==
  { [fn |-> "percentile", latencies |-> LatencyList(n, shape), pct |-> pct] :
      n \in 0..MaxCount, shape \in Shapes, pct \in {95, 99} }
  \cup { [fn |-> "get_performance_analytics", recent_logs |-> w] : w \in Windows }

NoOutcome == [kind |-> "none"]

InitStats ==
  /\ Started
  /\ call \in StatsCalls
  /\ result = NoOutcome

ApplyPercentile ==
  /\ call.fn = "percentile"
  /\ result.kind = "none"
  /\ result' = Percentile(call.latencies, call.pct)
  /\ UNCHANGED << llm_url, payload, commit_failures, clock, pc, rq, start_time,
                  clientOpen, exc, relayLocals, log_entry, stores, resp, raised,
                  calls, passes, delivered, sent, call >>

ApplyAnalytics ==
  /\ call.fn = "get_performance_analytics"
  /\ result.kind = "none"
  /\ result' = get_performance_analytics(call.recent_logs)
  /\ UNCHANGED << llm_url, payload, commit_failures, clock, pc, rq, start_time,
                  clientOpen, exc, relayLocals, log_entry, stores, resp, raised,
                  calls, passes, delivered, sent, call >>

NextStats == ApplyPercentile \/ ApplyAnalytics

SpecStats == InitStats /\ [][NextStats]_vars

\* -------------------------------------- the query of the recent rows alone
MaxRows == 11

\* a table of n rows in the order of their commits: the first n - 1 rows of
\* requests that started one after the other and succeeded, the last row of
\* a failed request that started before `later` of them and was answered
\* after all of them
HistoryRow(id, startUs, error) ==
  [id |-> id, start_time |-> startUs, error_message |-> error]
HistoryTable(n, later) ==
  [i \in 1..n |->
     IF i < n THEN HistoryRow(i, 1000 * i, NullStr)
     ELSE HistoryRow(n, 1000 * (n - 1 - later) + 500, "All connection attempts failed")]

WindowCalls ==
  UNION { { [fn |-> "recent_logs", table |-> HistoryTable(n, later), entry |-> n] :
              later \in 0..(n - 1) } : n \in 1..MaxRows }

InitWindow ==
  /\ Started
  /\ call \in WindowCalls
  /\ result = NoOutcome

\* the query of check_alert_rules for the error_rate metric and the value
\* resolved from its rows
ApplyRecent ==
  /\ call.fn = "recent_logs"
  /\ result.kind = "none"
  /\ \E W \in RecentWindows(call.table) :
       result' = [kind |-> "window", ids |-> W,
                  error_rate |-> ErrorRate(call.table, W)]
  /\ UNCHANGED << llm_url, payload, commit_failures, clock, pc, rq, start_time,
                  clientOpen, exc, relayLocals, log_entry, stores, resp, raised,
                  calls, passes, delivered, sent, call >>

NextWindow == ApplyRecent

SpecWindow == InitWindow /\ [][NextWindow]_vars

\* =================================================================== claims
\* the rows a request added to llm_request_logs
RowsBy(r) == { i \in Ids(logs) : logs[i].by = r }

\* a body that cannot be parsed
Malformed(body) == body.kind \in {"badjson", "badutf8"}

Finished(r) == pc[r] = "done"

\* the chunks the caller got from the backend: what was sent but for the
\* diagnostic chunk
IsBackendChunk(c) == ~IsErrorChunk(c)
Forwarded(r) == SelectSeq(sent[r], IsBackendChunk)

\* C1: every finished request whose body is not malformed (here: a
\* chat-completion object, streaming or not, whatever the backend did) has
\* added exactly one row and has run exactly one alert pass.
C1_ExactlyOneRecordAndPass ==
  \A r \in Req :
    Finished(r) /\ rq[r].kind = "object"
      => Cardinality(RowsBy(r)) = 1 /\ passes[r] = 1

\* C2: a non-streaming request whose backend call failed with a connection
\* failure (a timeout included) ends with status 503 for the caller.
C2_ConnectionFailureGives503 ==
  \A r \in Req :
    Finished(r) /\ ~rq[r].stream /\ exc[r].cls = "RequestError"
      => resp[r] = StatusUnavailable

\* C3: a request whose backend answered with an error status ends with that
\* same status for the caller.
C3_BackendStatusPassedThrough ==
  \A r \in Req :
    Finished(r) /\ exc[r].cls = "HTTPStatusError" => resp[r] = exc[r].status

\* C4: a request whose body cannot be parsed gets 400; it adds no row, runs
\* no alert pass, makes no backend call and adds no alert event.
C4_MalformedBodyRejected ==
  \A r \in Req :
    pc[r] # "idle" /\ Malformed(rq[r])
      => /\ resp[r] = StatusBadRequest
         /\ RowsBy(r) = {}
         /\ passes[r] = 0
         /\ calls[r] = 0
         /\ \A k \in DOMAIN events : logs[events[k].log_id].by # r

\* C5: every row that carries an error message has score 0 and empty output.
C5_ErrorRowsScoreZero ==
  \A i \in Ids(logs) :
    logs[i].error_message # NullStr
      => logs[i].performance_score = 0 /\ logs[i].output_text = <<>>

\* rows of the three failure paths are in the table
C5_Witness ==
  /\ \E i \in Ids(logs) : logs[i].is_streaming /\ logs[i].error_message # NullStr
  /\ \E i \in Ids(logs) : logs[i].model_name = "unknown"
  /\ \E i \in Ids(logs) :
       /\ ~logs[i].is_streaming
       /\ logs[i].model_name = "m1"
       /\ logs[i].error_message # NullStr

\* the score of section 4.3 in hundredths, by cases on the saturation points
ExpectedScore(latency_ms, tps, error_occurred) ==
  IF error_occurred THEN 0
  ELSE LET latencyPart == IF latency_ms >= 2000 THEN 0 ELSE 6000 - 3 * latency_ms
           throughputPart == IF tps.n >= 20 * tps.d THEN 4000 * tps.d ELSE 200 * tps.n
       IN  RoundHalfEven(latencyPart * tps.d + throughputPart, tps.d)

\* C6: the score function returns round(0.6 * max(0, 100 - latency/20)
\* + 0.4 * min(100, tps * 5), 2), and 0 on an error; (0, 20) gives 100.00,
\* (2000, 0) gives 0.00 and (1000, 10) gives 50.00; the latency component is
\* 0 from 2000 ms on and the throughput component 100 from 20 tokens/s on.
C6_ScoreContract ==
  result # NoResult =>
    /\ result = ExpectedScore(call.latency_ms, call.tokens_per_second,
                              call.error_occurred)
    /\ call.error_occurred => result = 0
    /\ call.latency_ms >= 2000 => LatencyScore20(call.latency_ms) = 0
    /\ call.tokens_per_second.n >= 20 * call.tokens_per_second.d
         => ThroughputScoreD(call.tokens_per_second)
              = 100 * call.tokens_per_second.d
    /\ ~call.error_occurred =>
         /\ call.latency_ms = 0 /\ call.tokens_per_second = Frac(20, 1)
              => result = 10000
         /\ call.latency_ms = 2000 /\ call.tokens_per_second = Zero
              => result = 0
         /\ call.latency_ms = 1000 /\ call.tokens_per_second = Frac(10, 1)
              => result = 5000

C6_Witness ==
  /\ result = 5000
  /\ call.latency_ms = 1000
  /\ call.tokens_per_second = Frac(10, 1)
  /\ ~call.error_occurred

\* C7: what the caller got from the backend is what the backend delivered:
\* no chunk dropped, duplicated, altered or reordered.
C7_AllChunksForwarded ==
  \A r \in Req : Forwarded(r) = delivered[r]

RECURSIVE Concatenation(_, _)
\* chunks[1] \o ... \o chunks[k]
Concatenation(chunks, k) ==
  IF k = 0 THEN <<>> ELSE Concatenation(chunks, k - 1) \o chunks[k]

\* a row the relay added after a normal end of the stream
StreamEndRow(i) == logs[i].is_streaming /\ logs[i].error_message = NullStr

\* C8: after a normal stream end the row's output text is the concatenation,
\* in order, of the chunks forwarded to the caller.
C8_OutputIsForwardedChunks ==
  \A i \in Ids(logs) :
    StreamEndRow(i)
      => logs[i].output_text
           = Concatenation(Forwarded(logs[i].by), Len(Forwarded(logs[i].by)))

C8_Witness ==
  \E i \in Ids(logs) :
    /\ StreamEndRow(i)
    /\ Len(Forwarded(logs[i].by)) = 2
    /\ Len(delivered[logs[i].by]) = 2

\* C9: once an error surfaced in the relay, the caller got exactly one
\* diagnostic chunk, it is the last chunk sent, and the relay is past its
\* chunk loop; without an error no diagnostic chunk is sent.
C9_DiagnosticChunkIsLast ==
  \A r \in Req :
    LET diagnostics == { k \in DOMAIN sent[r] : IsErrorChunk(sent[r][k]) }
    IN  IF exc[r] # NoExc
        THEN /\ diagnostics = {Len(sent[r])}
             /\ sent[r][Len(sent[r])] = ErrorChunk(exc[r].msg)
             /\ pc[r] \in {"relay_err_yield", "relay_err_alert", "done", "cancelled",
                         "crashed"}
        ELSE diagnostics = {}

\* an error after a chunk was relayed, and the relay has returned
C9_Witness ==
  \E r \in Req :
    /\ exc[r] # NoExc
    /\ Len(sent[r]) = 2
    /\ Finished(r)

\* the comparison the rule's operator stands for
Holds(operator, value, threshold) ==
  CASE operator = "gt" -> value.n > threshold * value.d
    [] operator = "lt" -> value.n < threshold * value.d
    [] operator = "eq" -> value.n = threshold * value.d
    [] OTHER -> FALSE

\* a row is evaluated once the alert pass of its request has run
Evaluated(i) == \E r \in Req : log_entry[r] = i /\ passes[r] > 0

EventsOf(ruleId, logId) ==
  { k \in DOMAIN events : events[k].rule_id = ruleId /\ events[k].log_id = logId }

\* an alert pass adds, for the row it evaluates, one event per active rule
\* whose resolved value satisfies the operator, and nothing else
C10_PassAddsOnePerMatch ==
  \A r \in Req :
    passes'[r] # passes[r] =>
      LET entry == logs[log_entry[r]]
          fresh == SubSeq(events', Len(events) + 1, Len(events'))
      IN  /\ SubSeq(events', 1, Len(events)) = events
          /\ \A k \in DOMAIN fresh : fresh[k].log_id = entry.id
          /\ \E W \in RecentWindows(logs) :
               \A i \in Ids(rules) :
                 Cardinality({ k \in DOMAIN fresh : fresh[k].rule_id = i })
                   = IF /\ rules[i].is_active
                        /\ Holds(rules[i].operator,
                                 MetricValue(rules[i], entry, logs, W),
                                 rules[i].threshold)
                     THEN 1 ELSE 0

\* the default latency rule has an event for an evaluated row exactly when
\* the row's latency exceeds 5000, and no pair has two events
C10_LatencyRuleIff ==
  /\ \A i \in Ids(logs) :
       Evaluated(i) => (EventsOf(1, i) # {} <=> logs[i].latency_ms > 5000)
  /\ \A i \in Ids(logs) : \A j \in Ids(rules) : Cardinality(EventsOf(j, i)) <= 1

\* C10: an alert pass creates exactly one event per (rule, row) when the rule
\* is active and its value satisfies the operator against the threshold, and
\* none otherwise; the rule latency > 5000 fires exactly for rows whose
\* latency exceeds 5000, each matching row giving its own event.
C10_AlertPerRulePerRecord ==
  [][C10_PassAddsOnePerMatch]_vars /\ []C10_LatencyRuleIff

\* two rows in sequence both fired the latency rule
C10_Witness ==
  \E i, j \in Ids(logs) : i # j /\ EventsOf(1, i) # {} /\ EventsOf(1, j) # {}

\* the share, in percent, of the rows of a window whose error message is
\* not null
NonNullRate(table, W) ==
  IF W # {}
  THEN Frac(100 * Cardinality({ i \in W : table[i].error_message # NullStr }),
            Cardinality(W))
  ELSE Zero

\* the events an alert pass has just added
Fresh == SubSeq(events', Len(events) + 1, Len(events'))

C11_PassResolvesNonNullShare ==
  \A r \in Req :
    passes'[r] # passes[r] =>
      \A k \in DOMAIN Fresh :
        rules[Fresh[k].rule_id].metric = "error_rate"
          => \E W \in RecentWindows(logs) :
               Fresh[k].metric_value = NonNullRate(logs, W)

\* C11: the error_rate an alert pass resolves (and records in the event it
\* adds) is 100 times the number of rows of the window with a non-null error
\* message over the number of rows of the window, the window being the
\* min(10, table size) most recent rows.
C11_ErrorRateIsNonNullShare == [][C11_PassResolvesNonNullShare]_vars

\* the rows of a window that carry an error: their error message is not null
Erroring(table, W) == { i \in W : table[i].error_message # NullStr }

C12_PassFiresErrorRateRule ==
  \A r \in Req :
    ( /\ passes'[r] # passes[r]
      /\ \A W \in RecentWindows(logs) : Cardinality(Erroring(logs, W)) >= 2 )
    => \A i \in Ids(rules) :
         ( /\ rules[i].is_active
           /\ rules[i].metric = "error_rate"
           /\ rules[i].operator = "gt"
           /\ rules[i].threshold = 10 )
         => \E k \in DOMAIN Fresh : Fresh[k].rule_id = i

\* C12: an alert pass that runs while at least 2 of the 10 most recent rows
\* carry errors adds an event for every active rule error_rate > 10.
C12_TwoErrorsFireErrorRateRule == [][C12_PassFiresErrorRateRule]_vars

\* C13: when the handling of a request has finished, every row it added that
\* carries an error message has been evaluated by an alert pass of that
\* request.
C13_FailureRowsGetAlertPass ==
  \A r \in Req :
    Finished(r) =>
      \A i \in RowsBy(r) :
        logs[i].error_message # NullStr => log_entry[r] = i /\ passes[r] > 0

\* the rows of successful non-streaming calls
SuccessRows ==
  { i \in Ids(logs) : logs[i].error_message = NullStr /\ ~logs[i].is_streaming }

\* the token counts of a row, as a triple
Counts(row) == << row.prompt_tokens, row.completion_tokens, row.total_tokens >>

\* the whitespace-token estimates for a row: prompt over the message
\* contents, completion over the output text, total their sum
EstimatedCounts(row) ==
  LET prompt == PromptTokens(rq[row.by].messages)
      completion == SplitCount(row.output_text)
  IN  << prompt, completion, prompt + completion >>

\* C14: the row of a successful non-streaming call carries either the
\* backend's usage counters or, when the backend reported none, the
\* whitespace-token estimates; its completion and total counts are not null
\* and its tokens per second derive from the completion count.
C14_TokenCountsReportedOrEstimated ==
  \A i \in SuccessRows :
    /\ \/ Counts(logs[i]) = << BackendUsage.prompt_tokens,
                                BackendUsage.completion_tokens,
                                BackendUsage.total_tokens >>
       \/ Counts(logs[i]) = EstimatedCounts(logs[i])
    /\ logs[i].completion_tokens # NullInt
    /\ logs[i].total_tokens # NullInt
    /\ logs[i].tokens_per_second
         = TokensPerSecond(logs[i].completion_tokens, logs[i].start_time,
                           logs[i].end_time)

\* C15: when the backend is of the native chat shape, the payload built for
\* it, for the post and for the relay alike, carries every sampling
\* parameter of the inbound request with the same value.
C15_NativePayloadKeepsSampling ==
  \A r \in Req :
    payload[r] # NoPayload /\ IsNativeChat(llm_url)
      => \A p \in SamplingParams :
           rq[r].params[p] # NullInt => payload[r].params[p] = rq[r].params[p]

\* C16: a commit of a log row that raises never leaves the handler or the
\* relay as an unhandled exception, and the caller of a non-streaming
\* request whose commit raised gets 500.
C16_CommitFailureSwallowed ==
  \A r \in Req :
    /\ pc[r] # "crashed"
    /\ Finished(r) /\ ~rq[r].stream /\ commit_failures[r] > 0
         => resp[r] = StatusInternal

\* C17: no request makes more than one call attempt to the backend, and a
\* request whose one call failed ends with an error status for its caller.
C17_SingleBackendAttempt ==
  \A r \in Req :
    /\ calls[r] <= 1
    /\ Finished(r) /\ exc[r] \in BackendFailures => resp[r] >= StatusBadRequest

\* both requests have finished after their one call failed at the backend
C17_Witness ==
  \A r \in Req :
    Finished(r) /\ exc[r] \in BackendFailures /\ calls[r] = 1 /\ resp[r] = StatusInternal

\* the element at position k (from 0) of the ascending order of a list
KthSmallest(values, k) ==
  CHOOSE v \in { values[i] : i \in DOMAIN values } :
    /\ Cardinality({ i \in DOMAIN values : values[i] < v }) <= k
    /\ Cardinality({ i \in DOMAIN values : values[i] <= v }) > k

\* C18: for a non-empty list of latencies and p in {0.95, 0.99} the
\* percentile is the element at position min(floor(count * p), count - 1) of
\* the ascending-sorted list, and the index used lies within 0..count-1.
C18_PercentileWithinList ==
  call.fn = "percentile" /\ result.kind = "percentile" /\ call.latencies # <<>>
    => LET count == Len(call.latencies)
           k == Min((count * call.pct) \div 100, count - 1)
       IN  /\ ~result.fault
           /\ result.index \in 0..(count - 1)
           /\ result.index = k
           /\ result.value = KthSmallest(call.latencies, k)

\* the 95th percentile of 20 values is their last element
C18_Witness ==
  /\ call.fn = "percentile"
  /\ result.kind = "percentile"
  /\ Len(call.latencies) = 20
  /\ call.pct = 95
  /\ result.index = 19
  /\ call.latencies[1] = result.value

\* C19: an empty window gives the "no data" result; a percentile, mean,
\* minimum or maximum over an empty list of values is 0; and no window
\* (empty, one row, all rows erroring, all throughputs null) makes the
\* aggregation fail on a division or an index.
C19_AggregationNeverFaults ==
  /\ call.fn = "get_performance_analytics" /\ result.kind # "none"
       => /\ result.kind # "fault"
          /\ (call.recent_logs = <<>>) <=> (result.kind = "no_data")
          /\ ( /\ result.kind = "analytics"
               /\ \A i \in DOMAIN call.recent_logs :
                    call.recent_logs[i].tokens_per_second = NullFrac )
             => /\ result.throughput_stats.mean_tokens_per_sec = Zero
                /\ result.throughput_stats.max_tokens_per_sec = Zero
                /\ result.throughput_stats.min_tokens_per_sec = Zero
  /\ call.fn = "percentile" /\ result.kind = "percentile"
       => /\ ~result.fault
          /\ call.latencies = <<>> => result.value = 0

\* the analytics of a window of one erroring row without throughput
C19_Witness ==
  /\ call.fn = "get_performance_analytics"
  /\ result.kind = "analytics"
  /\ Len(call.recent_logs) = 1
  /\ call.recent_logs[1].error_message # NullStr
  /\ call.recent_logs[1].tokens_per_second = NullFrac
  /\ result.summary.success_rate = Zero

\* C20: every row of the table has a score between 0 and 100 (the score is
\* kept in hundredths).
C20_ScoreWithinRange ==
  \A i \in Ids(logs) :
    logs[i].performance_score >= 0 /\ logs[i].performance_score <= 100 * 100

\* the table holds a row of score 0 and a row of score 100
C20_Witness ==
  \E i, j \in Ids(logs) :
    logs[i].performance_score = 0 /\ logs[j].performance_score = 100 * 100

\* the rows of failed calls: the except branch of the non-streaming call and
\* the except branch of the relay (the minimal row of the handler of
\* unexpected errors has model "unknown")
FailedCallRows ==
  { i \in Ids(logs) :
      logs[i].error_message # NullStr /\ logs[i].model_name # "unknown" }

\* C21: every row of a failed call records tokens per second 0, not null.
C21_FailureRowsZeroThroughput ==
  \A i \in FailedCallRows : logs[i].tokens_per_second = Zero

\* the first chunk relayed to the caller fixes first_token_time at the
\* instant of its arrival; nothing changes it afterwards, and it stays unset
\* while nothing was relayed
C22_FirstTokenSetOnce ==
  \A r \in Req :
    /\ Forwarded(r) = <<>> /\ SelectSeq(sent'[r], IsBackendChunk) # <<>>
         => first_token_time'[r] = now
    /\ first_token_time[r] # NullInt => first_token_time'[r] = first_token_time[r]
    /\ SelectSeq(sent'[r], IsBackendChunk) = <<>> => first_token_time'[r] = NullInt

\* the time to first token of the rows of normally ended streams
C22_RowsCarryFirstToken ==
  \A i \in Ids(logs) :
    StreamEndRow(i) =>
      LET r == logs[i].by
          ttft == logs[i].time_to_first_token_ms
      IN  /\ (ttft = NullInt) <=> (Forwarded(r) = <<>>)
          /\ ttft # NullInt
               => /\ ttft = LatencyMs(logs[i].start_time, first_token_time[r])
                  /\ 0 <= ttft
                  /\ ttft <= logs[i].latency_ms

\* C22: on a normal stream end the row's time to first token is null exactly
\* when no chunk with content was relayed; otherwise it is the time from the
\* start of the request to the arrival of the first such chunk, fixed once,
\* and lies between 0 and the latency.
C22_TimeToFirstToken ==
  [][C22_FirstTokenSetOnce]_vars /\ []C22_RowsCarryFirstToken

\* a stream of two relayed chunks whose first came after a wait and whose
\* end came after another
C22_Witness ==
  \E i \in Ids(logs) :
    /\ StreamEndRow(i)
    /\ Len(Forwarded(logs[i].by)) = 2
    /\ logs[i].time_to_first_token_ms > 0
    /\ logs[i].time_to_first_token_ms < logs[i].latency_ms

RECURSIVE TokensOf(_)
\* the sum of the whitespace-token counts of chunks
TokensOf(chunks) ==
  IF chunks = <<>> THEN 0 ELSE SplitCount(Head(chunks)) + TokensOf(Tail(chunks))

\* C23: on a normal stream end the row's completion tokens are the sum of
\* the whitespace-token counts of the chunks received, and its tokens per
\* second are that sum over the seconds from start to end, or 0 when no
\* time has passed.
C23_StreamThroughput ==
  \A i \in Ids(logs) :
    StreamEndRow(i) =>
      LET estimate == TokensOf(delivered[logs[i].by])
          elapsedUs == logs[i].end_time - logs[i].start_time
      IN  /\ logs[i].completion_tokens = estimate
          /\ logs[i].tokens_per_second
               = IF elapsedUs > 0 THEN Frac(estimate * 1000000, elapsedUs)
                 ELSE Zero

\* a stream of three tokens in two chunks that took time, and one that took none
C23_Witness ==
  /\ \E i \in Ids(logs) :
       /\ StreamEndRow(i)
       /\ Len(delivered[logs[i].by]) = 2
       /\ logs[i].completion_tokens = 3
       /\ logs[i].tokens_per_second.n > 0
  /\ \E i \in Ids(logs) :
       /\ StreamEndRow(i)
       /\ logs[i].completion_tokens > 0
       /\ logs[i].end_time = logs[i].start_time

\* a streaming request has a row only once its stream has ended or failed:
\* never before or inside the chunk loop, and nothing is relayed afterwards
C24_RowAfterTerminalEvent ==
  \A r \in Req :
    /\ pc[r] \in {"relay_start", "relay_connect", "relay_read", "relay_err_yield"}
         => RowsBy(r) = {}
    /\ rq[r].stream /\ RowsBy(r) # {}
         => pc[r] \in {"relay_end_alert", "relay_err_alert", "done"}

\* an alert pass evaluates a row that is already in the table, added by the
\* same request, and rows are only ever appended
C24_PassAfterCommit ==
  /\ \A r \in Req :
       passes'[r] # passes[r]
         => log_entry[r] \in Ids(logs) /\ logs[log_entry[r]].by = r
  /\ \A r \in Req :
       \A i \in Ids(logs') \ Ids(logs) :
         logs'[i].by = r /\ rq[r].stream
           => /\ pc[r] \in {"relay_read", "relay_err_yield"}
              /\ pc'[r] \in {"relay_end_alert", "relay_err_alert"}
              /\ sent'[r] = sent[r]
              /\ delivered'[r] = delivered[r]
              /\ passes'[r] = passes[r]

\* C24: a streaming request's row is added only after its stream has ended
\* or failed, never while chunks are relayed; and in every path the row is
\* in the table before the alert pass over it starts.
C24_PersistThenAlert ==
  []C24_RowAfterTerminalEvent /\ [][C24_PassAfterCommit]_vars

\* a stream ended after two chunks, and a non-streaming call failed, each
\* followed by its alert pass
C24_Witness ==
  /\ \E i \in Ids(logs) :
       /\ StreamEndRow(i)
       /\ Len(sent[logs[i].by]) = 2
       /\ passes[logs[i].by] = 1
  /\ \E i \in Ids(logs) :
       /\ ~logs[i].is_streaming
       /\ logs[i].model_name # "unknown"
       /\ logs[i].error_message # NullStr
       /\ passes[logs[i].by] = 1

\* C25: while the relay of a streaming request has not reached its terminal
\* event, the client the handler created is open, and the relay never fails
\* on a closed client.
C25_ClientOpenForRelay ==
  \A r \in Req :
    /\ pc[r] \in {"relay_start", "relay_connect", "relay_read"} => clientOpen[r]
    /\ exc[r] # ClientClosed

\* a relay that was closed or cancelled has added no row and run no alert
\* pass, and one cancelled before any error has sent no diagnostic chunk
C26_NothingFlushed ==
  \A r \in Req :
    pc[r] = "cancelled"
      => /\ RowsBy(r) = {}
         /\ passes[r] = 0
         /\ \A k \in DOMAIN events : events[k].log_id \notin RowsBy(r)
         /\ exc[r] = NoExc => Forwarded(r) = sent[r]

\* a relay that was closed or cancelled stays so and sends nothing more
C26_ForwardingHalts ==
  \A r \in Req :
    pc[r] = "cancelled" => pc'[r] = "cancelled" /\ sent'[r] = sent[r]

\* C26: when the caller disconnects while the relay is suspended at a chunk
\* hand-off, forwarding halts and, for that request, no row is added, no
\* diagnostic chunk is sent and no alert pass runs.
C26_DisconnectFlushesNothing ==
  []C26_NothingFlushed /\ [][C26_ForwardingHalts]_vars

\* the caller went away after one chunk had been relayed, and another
\* relay ran to its end
C26_Witness ==
  \E r, q \in Req :
    /\ pc[r] = "cancelled"
    /\ exc[r] = NoExc
    /\ Len(sent[r]) = 1
    /\ pc[q] = "done"
    /\ RowsBy(q) # {}

\* C27: the row a request has just committed is among the rows its alert
\* pass reads for error_rate, so a failed request counts in the rate it is
\* evaluated against, whatever rows other requests have committed.
C27_OwnRowInWindow ==
  result.kind = "window"
    => /\ call.entry \in result.ids
       /\ Truthy(call.table[call.entry].error_message) => result.error_rate.n > 0

\* the active rules that ask for tokens_per_second below a positive threshold
LowThroughputRules ==
  { k \in DOMAIN rules :
      /\ rules[k].is_active
      /\ rules[k].metric = "tokens_per_second"
      /\ rules[k].operator = "lt"
      /\ rules[k].threshold > 0 }

C28_PassFiresLowThroughput ==
  \A r \in Req :
    (passes'[r] # passes[r] /\ logs[log_entry[r]].error_message # NullStr) =>
      /\ logs[log_entry[r]].tokens_per_second = NullFrac
      /\ \A k \in LowThroughputRules :
           \E j \in DOMAIN Fresh :
             /\ Fresh[j].rule_id = rules[k].id
             /\ Fresh[j].log_id = log_entry[r]
             /\ Fresh[j].metric_value = Zero

\* C28: the alert pass over an erroring row, whose tokens_per_second is
\* unset, resolves the metric to 0, so every active rule "tokens_per_second
\* lt t" with t > 0 adds an event for every failed request that gets a pass.
C28_FailedRequestFiresLowThroughput == [][C28_PassFiresLowThroughput]_vars

\* a failed call was evaluated and the default low-throughput rule fired on
\* its row with the value 0
C28_Witness ==
  \E i \in Ids(logs) :
    /\ Evaluated(i)
    /\ logs[i].error_message # NullStr
    /\ logs[i].tokens_per_second = NullFrac
    /\ \E j \in EventsOf(2, i) : events[j].metric_value = Zero

\* the body is JSON, but no object
NotAnObject(body) == body.kind = "array"

\* C29: a request whose body is JSON but no object is not rejected as
\* malformed: it makes no backend call and gets no alert pass, its caller
\* gets 500, and the one row it adds (none when the commit of that row
\* raises, which is swallowed) has model "unknown", empty input and output,
\* an error message and score 0.
C29_NonObjectBodyIsUnexpected ==
  \A r \in Req :
    pc[r] # "idle" /\ NotAnObject(rq[r])
      => /\ Finished(r)
         /\ resp[r] = StatusInternal
         /\ calls[r] = 0
         /\ passes[r] = 0
         /\ \A k \in DOMAIN events : logs[events[k].log_id].by # r
         /\ Cardinality(RowsBy(r)) = (IF commit_failures[r] = 0 THEN 1 ELSE 0)
         /\ \A i \in RowsBy(r) :
              /\ logs[i].model_name = "unknown"
              /\ logs[i].input_text = <<>>
              /\ logs[i].output_text = <<>>
              /\ Truthy(logs[i].error_message)
              /\ logs[i].performance_score = 0

\* a request with a JSON array as its body has been answered and its minimal
\* row is in the table
C29_Witness ==
  \E r \in Req :
    /\ Finished(r)
    /\ NotAnObject(rq[r])
    /\ resp[r] = StatusInternal
    /\ \E i \in RowsBy(r) : logs[i].model_name = "unknown"

====
